---------------------------- MODULE Spec2Model ----------------------------
(***************************************************************************)
(* A model of led-file-maker: the exporter of the Electron main process    *)
(* (the 'export' IPC listener), the .wbmani container it writes, and the   *)
(* player component that opens and renders such a file.                    *)
(*                                                                         *)
(* Specifications:                                                         *)
(*   SpecCodec  - one export of a small folder of frames followed by the   *)
(*                player opening and playing the exported file;            *)
(*   SpecHeader - the 9-byte header written and parsed for header fields   *)
(*                over the whole 16-bit range and beyond;                  *)
(*   SpecExport - the generator window and the main process: folders are   *)
(*                loaded and cleared, exports are requested, cancelled,    *)
(*                fail or finish, with the temp file and the output file;  *)
(*   SpecFolder - loadFolder over every small directory listing;           *)
(*   SpecPlayer - the player opening a file with any format bytes.         *)
(***************************************************************************)
EXTENDS Integers, Sequences, FiniteSets, TLC

VARIABLES
    format,     \* exportConfig.format: the color format, a sequence of 3 characters
    options,    \* exportConfig.imageOptions: startCorner, pixelOrder, flip
    files,      \* the main process's global files list: width, height, name per file
    images,     \* what sharp decodes for each file: [data, info]
    i,          \* the frame loop's index
    written,    \* the bytes written to fileWriter (the temp file)
    output,     \* the output array of the frame processed last
    emitted,    \* the indices row*width+col pushed to output, in order (last frame)
    pc,         \* where the export is: "start", "writing", "finished", "failed"
    error,      \* the error thrown by the frame loop, <<>> when none
    outFile,    \* the bytes at outPath, <<>> when there is no file
    file,       \* the player's file state
    frame,      \* the player's frame state, Null when null
    imageData,  \* the player's imageData.data put on the canvas last
    hdrIn,      \* SpecHeader: files.length, files[0].width, files[0].height, format
    hdrBytes,   \* SpecHeader: the header bytes written
    hdrFile,    \* SpecHeader: the header as the player parses it
    hdrPc,      \* SpecHeader: "start", "written", "opened", "failed"
    disk,       \* the directory listing of each folder the dialog can select
    folderPath, \* the main process's global folderPath, "" when none
    exports,    \* per 'export' message received: the listener's closure and progress
    launched,   \* the number of 'export' messages received
    handler,    \* the export whose `canceled` the 'cancelExport' handler sets, 0 when none
    fs,         \* the output directory: the file at tempPath and the file at outPath
    uiFiles,    \* Generator state: files
    imageOptions, \* Generator state: imageOptions
    exportModal,  \* Generator state: exportModal.show
    errorModal, \* Generator state: errorModal
    previewIndex, \* Preview state: the index of the image shown
    playerPc    \* the player's pending effect: "idle", "fileEffect"

codecVars == <<format, options, files, images, i, written, output, emitted, pc,
               error, outFile, file, frame, imageData>>
headerVars == <<hdrIn, hdrBytes, hdrFile, hdrPc>>
exportVars == <<disk, folderPath, exports, launched, handler, fs, uiFiles,
                imageOptions, exportModal, errorModal>>
viewVars == <<previewIndex, playerPc>>
vars == <<codecVars, headerVars, exportVars, viewVars>>

----------------------------------------------------------------------------
(* Bounds of the model *)

MaxWidth == 3
MaxHeight == 3
MaxFrames == 2
MaxExports == 2
MaxEntries == 3

(* Program constants *)

HeaderBytes == 9
Null == -1
Undefined == -2

----------------------------------------------------------------------------
(* Enumerations *)

rgb == <<"r", "g", "b">>
rbg == <<"r", "b", "g">>
bgr == <<"b", "g", "r">>
brg == <<"b", "r", "g">>
grb == <<"g", "r", "b">>
gbr == <<"g", "b", "r">>

ColorFormat == {rgb, rbg, bgr, brg, grb, gbr}
StartCorner == {"topLeft", "topRight", "bottomLeft", "bottomRight"}
PixelOrder == {"horizontal", "vertical", "horizontalAlternate", "verticalAlternate"}
FlipOptions == [horizontal : BOOLEAN, vertical : BOOLEAN]
ImageOptions == [flip : FlipOptions, startCorner : StartCorner, pixelOrder : PixelOrder]
ChannelCounts == {3, 4}

----------------------------------------------------------------------------
(* Bytes, characters and 16-bit numbers *)

\* String.prototype.charCodeAt for the characters of a color format name.
CharCodeAt(str, k) ==
    CASE str[k + 1] = "r" -> 114
      [] str[k + 1] = "g" -> 103
      [] str[k + 1] = "b" -> 98

\* ToInt32 / ToUint16 of a byte or of undefined (NaN becomes 0)
ToInt(x) == IF x = Undefined THEN 0 ELSE x

\* String.fromCharCode for one byte; characters other than r, g, b are kept
\* as their code so that distinct bytes give distinct characters.
FromCharCode(code) ==
    CASE ToInt(code) = 114 -> "r"
      [] ToInt(code) = 103 -> "g"
      [] ToInt(code) = 98 -> "b"
      [] OTHER -> ToString(ToInt(code))

\* a | b on non-negative integers
RECURSIVE BitOr(_, _)
BitOr(a, b) ==
    IF a = 0 THEN b
    ELSE IF b = 0 THEN a
    ELSE (IF a % 2 = 1 \/ b % 2 = 1 THEN 1 ELSE 0) + 2 * BitOr(a \div 2, b \div 2)

\* a & 0xFF on non-negative integers
AndFF(a) == a % 256

\* a >> 8 on non-negative integers below 2^31
Shr8(a) == a \div 256

\* a << 8 on bytes
Shl8(a) == a * 256

MakeTwoBytesFromNumberSwapped(number) ==
    <<AndFF(number), AndFF(Shr8(number))>>

MakeTwoBytesFromNumber(number) ==
    LET highByte == AndFF(Shr8(number))
        lowByte == AndFF(number)
    IN <<highByte, lowByte>>

MakeFormatBytes(fmt) ==
    <<CharCodeAt(fmt, 0), CharCodeAt(fmt, 1), CharCodeAt(fmt, 2)>>

\* const headers = [...]: frame count, width, height, format
Headers(length, width, height, fmt) ==
    MakeTwoBytesFromNumber(length)
        \o MakeTwoBytesFromNumber(width)
        \o MakeTwoBytesFromNumber(height)
        \o MakeFormatBytes(fmt)

NumberFromTwoBytesNoShift(highByte, lowByte) ==
    BitOr(ToInt(highByte), ToInt(lowByte))

NumberFromTwoBytes(highByte, lowByte) ==
    LET out0 == Shl8(ToInt(highByte))
        out1 == BitOr(out0, ToInt(lowByte))
    IN out1

\* data[k] of a Uint8Array, Undefined past its end
ByteAt(data, k) == IF k + 1 <= Len(data) THEN data[k + 1] ELSE Undefined

\* The object handleOpenFile passes to setFile.
ParseFile(data) ==
    [ data |-> data,
      frames |-> NumberFromTwoBytes(ByteAt(data, 0), ByteAt(data, 1)),
      width |-> NumberFromTwoBytes(ByteAt(data, 2), ByteAt(data, 3)),
      height |-> NumberFromTwoBytes(ByteAt(data, 4), ByteAt(data, 5)),
      format |-> <<FromCharCode(ByteAt(data, 6)), FromCharCode(ByteAt(data, 7)),
                   FromCharCode(ByteAt(data, 8))>> ]

----------------------------------------------------------------------------
(* Color channels *)

\* The exporter's getRGB: each case names its three parameters and returns
\* [r, g, b]; it is called with (R, G, B) of the source pixel.
ExportGetRGB(fmt, a, b, c) ==
    CASE fmt = rgb -> (LET r == a  g == b  bb == c IN <<r, g, bb>>)
      [] fmt = rbg -> (LET r == a  bb == b  g == c IN <<r, g, bb>>)
      [] fmt = bgr -> (LET bb == a  g == b  r == c IN <<r, g, bb>>)
      [] fmt = brg -> (LET bb == a  r == b  g == c IN <<r, g, bb>>)
      [] fmt = grb -> (LET g == a  r == b  bb == c IN <<r, g, bb>>)
      [] fmt = gbr -> (LET g == a  bb == b  r == c IN <<r, g, bb>>)
      [] OTHER -> (LET r == a  g == b  bb == c IN <<r, g, bb>>)

\* PlayerGetRGB with a default that reverses the three bytes
PlayerGetRGBDefaultReversed(fmt, a, b, c) ==
    CASE fmt = rgb -> (LET r == a  g == b  bb == c IN <<r, g, bb>>)
      [] fmt = rbg -> (LET r == a  bb == b  g == c IN <<r, g, bb>>)
      [] fmt = bgr -> (LET bb == a  g == b  r == c IN <<r, g, bb>>)
      [] fmt = brg -> (LET bb == a  r == b  g == c IN <<r, g, bb>>)
      [] fmt = grb -> (LET g == a  r == b  bb == c IN <<r, g, bb>>)
      [] fmt = gbr -> (LET g == a  bb == b  r == c IN <<r, g, bb>>)
      [] OTHER -> (LET bb == a  g == b  r == c IN <<r, g, bb>>)

\* The player's getRGB: the same switch, called with the three stored bytes.
PlayerGetRGB(fmt, a, b, c) ==
    CASE fmt = rgb -> (LET r == a  g == b  bb == c IN <<r, g, bb>>)
      [] fmt = rbg -> (LET r == a  bb == b  g == c IN <<r, g, bb>>)
      [] fmt = bgr -> (LET bb == a  g == b  r == c IN <<r, g, bb>>)
      [] fmt = brg -> (LET bb == a  r == b  g == c IN <<r, g, bb>>)
      [] fmt = grb -> (LET g == a  r == b  bb == c IN <<r, g, bb>>)
      [] fmt = gbr -> (LET g == a  bb == b  r == c IN <<r, g, bb>>)
      [] OTHER -> (LET r == a  g == b  bb == c IN <<r, g, bb>>)

\* const pixels: one getRGB result per pixel of the decoded image
Pixels(data, info, fmt) ==
    [ n \in 1..(info.height * info.width) |->
        LET pointer == (n - 1) * info.channels
        IN ExportGetRGB(fmt, ByteAt(data, pointer + 0), ByteAt(data, pointer + 1),
                        ByteAt(data, pointer + 2)) ]

----------------------------------------------------------------------------
(* Pixel reordering *)

RECURSIVE ConcatAll(_)
ConcatAll(ss) == IF ss = <<>> THEN <<>> ELSE Head(ss) \o ConcatAll(Tail(ss))

\* for (x = 0; x < n; x++)
Up(n) == [k \in 1..n |-> k - 1]
\* for (x = n - 1; x >= 0; x--)
Down(n) == [k \in 1..n |-> n - k]
\* for (x = n - 1; x > 0; x--)
DownShort(n) == [k \in 1..(n - 1) |-> n - k]

\* An outer loop over rows with an inner loop over cols, pushing row*width+col
RowsOuter(rows, colsOf, width) ==
    ConcatAll([k \in 1..Len(rows) |->
        LET row == rows[k]
            cols == colsOf[row]
        IN [j \in 1..Len(cols) |-> row * width + cols[j]]])

\* An outer loop over cols with an inner loop over rows, pushing row*width+col
ColsOuter(cols, rowsOf, width) ==
    ConcatAll([k \in 1..Len(cols) |->
        LET col == cols[k]
            rows == rowsOf[col]
        IN [j \in 1..Len(rows) |-> rows[j] * width + col]])

Pushed(order) == [ok |-> TRUE, order |-> order, error |-> <<>>]
Unsupported(pixelOrder, startCorner) ==
    [ok |-> FALSE, order |-> <<>>,
     error |-> <<"Unsupported pixel order", pixelOrder, "for startCorner", startCorner>>]

\* TopLeftOrder with the snake's parity test inverted
TopLeftOrderOddFirst(pixelOrder, info) ==
    CASE pixelOrder = "horizontal" ->
            Pushed(Up(info.height * info.width))
      [] pixelOrder = "vertical" ->
            Pushed(ColsOuter(Up(info.width), [col \in Nat |-> Up(info.height)], info.width))
      [] pixelOrder = "horizontalAlternate" ->
            Pushed(RowsOuter(Up(info.height),
                             [row \in Nat |-> IF row % 2 = 0 THEN Down(info.width)
                                                         ELSE Up(info.width)],
                             info.width))
      [] OTHER -> Unsupported(pixelOrder, "topLeft")

\* if (options.startCorner === 'topLeft') { ... }
TopLeftOrder(pixelOrder, info) ==
    CASE pixelOrder = "horizontal" ->
            \* pixels.forEach(px => output.push(...px))
            Pushed(Up(info.height * info.width))
      [] pixelOrder = "vertical" ->
            Pushed(ColsOuter(Up(info.width), [col \in Nat |-> Up(info.height)], info.width))
      [] pixelOrder = "horizontalAlternate" ->
            Pushed(RowsOuter(Up(info.height),
                             [row \in Nat |-> IF row % 2 = 1 THEN Down(info.width)
                                                         ELSE Up(info.width)],
                             info.width))
      [] OTHER -> Unsupported(pixelOrder, "topLeft")

\* TopRightOrder with the descending loop stopping at col > 0
TopRightOrderShort(pixelOrder, info) ==
    CASE pixelOrder = "horizontal" ->
            Pushed(RowsOuter(Up(info.height), [row \in Nat |-> DownShort(info.width)],
                             info.width))
      [] pixelOrder = "horizontalAlternate" ->
            Pushed(RowsOuter(Up(info.height),
                             [row \in Nat |-> IF row % 2 = 1 THEN DownShort(info.width)
                                                         ELSE Up(info.width)],
                             info.width))
      [] OTHER -> Unsupported(pixelOrder, "topRight")

\* else if (options.startCorner === 'topRight') { ... }
TopRightOrder(pixelOrder, info) ==
    CASE pixelOrder = "horizontal" ->
            Pushed(RowsOuter(Up(info.height), [row \in Nat |-> Down(info.width)], info.width))
      [] pixelOrder = "horizontalAlternate" ->
            Pushed(RowsOuter(Up(info.height),
                             [row \in Nat |-> IF row % 2 = 1 THEN Down(info.width)
                                                         ELSE Up(info.width)],
                             info.width))
      [] OTHER -> Unsupported(pixelOrder, "topRight")

\* BottomLeftOrder with the snake's parity test inverted
BottomLeftOrderEvenUp(pixelOrder, info) ==
    CASE pixelOrder = "horizontal" ->
            Pushed(RowsOuter(Down(info.height), [row \in Nat |-> Up(info.width)], info.width))
      [] pixelOrder = "verticalAlternate" ->
            Pushed(ColsOuter(Up(info.width),
                             [col \in Nat |-> IF col % 2 = 0 THEN Up(info.height)
                                                         ELSE Down(info.height)],
                             info.width))
      [] OTHER -> Unsupported(pixelOrder, "bottomLeft")

\* else if (options.startCorner === 'bottomLeft') { ... }
BottomLeftOrder(pixelOrder, info) ==
    CASE pixelOrder = "horizontal" ->
            Pushed(RowsOuter(Down(info.height), [row \in Nat |-> Up(info.width)], info.width))
      [] pixelOrder = "verticalAlternate" ->
            Pushed(ColsOuter(Up(info.width),
                             [col \in Nat |-> IF col % 2 = 1 THEN Up(info.height)
                                                         ELSE Down(info.height)],
                             info.width))
      [] OTHER -> Unsupported(pixelOrder, "bottomLeft")

\* BottomRightOrder with 'horizontal' answered by a reversed row-major order
BottomRightOrderSubstituted(pixelOrder, info) ==
    CASE pixelOrder = "vertical" ->
            Pushed(ColsOuter(Down(info.width), [col \in Nat |-> Down(info.height)], info.width))
      [] pixelOrder = "verticalAlternate" ->
            Pushed(ColsOuter(Down(info.width),
                             [col \in Nat |-> IF col % 2 = 1 THEN Up(info.height)
                                                         ELSE Down(info.height)],
                             info.width))
      [] pixelOrder = "horizontal" ->
            Pushed(Down(info.height * info.width))
      [] OTHER -> Unsupported(pixelOrder, "bottomRight")

\* else if (options.startCorner === 'bottomRight') { ... }
BottomRightOrder(pixelOrder, info) ==
    CASE pixelOrder = "vertical" ->
            Pushed(ColsOuter(Down(info.width), [col \in Nat |-> Down(info.height)], info.width))
      [] pixelOrder = "verticalAlternate" ->
            Pushed(ColsOuter(Down(info.width),
                             [col \in Nat |-> IF col % 2 = 1 THEN Up(info.height)
                                                         ELSE Down(info.height)],
                             info.width))
      [] OTHER -> Unsupported(pixelOrder, "bottomRight")

\* The whole if / else if chain over options.startCorner
ReorderPixels(opts, info) ==
    CASE opts.startCorner = "topLeft" -> TopLeftOrder(opts.pixelOrder, info)
      [] opts.startCorner = "topRight" -> TopRightOrder(opts.pixelOrder, info)
      [] opts.startCorner = "bottomLeft" -> BottomLeftOrder(opts.pixelOrder, info)
      [] opts.startCorner = "bottomRight" -> BottomRightOrder(opts.pixelOrder, info)
      [] OTHER -> [ok |-> FALSE, order |-> <<>>,
                   error |-> <<"Unsupported start corner", opts.startCorner>>]

\* The body of the frame loop's try block after sharp has decoded the image:
\* the output array, or the error thrown.
EncodeFrame(data, info, opts, fmt) ==
    LET pixels == Pixels(data, info, fmt)
        plan == ReorderPixels(opts, info)
    IN [ ok |-> plan.ok,
         order |-> plan.order,
         error |-> plan.error,
         output |-> ConcatAll([k \in 1..Len(plan.order) |-> pixels[plan.order[k] + 1]]) ]

----------------------------------------------------------------------------
(* The player's render effect *)

\* getBytes(start, length)
GetBytes(data, start, length) == [k \in 1..length |-> ByteAt(data, start + k - 1)]

\* A value stored into a Uint8ClampedArray
Clamped(x) == IF x = Undefined THEN 0 ELSE x

\* RenderImageData with the pixels written from the last display position back
RenderImageDataReversed(f, fr) ==
    LET numberOfPixels == f.width * f.height
        startOfFrame == fr * numberOfPixels * 3 + HeaderBytes
        frameData == GetBytes(f.data, startOfFrame, numberOfPixels * 3)
    IN ConcatAll([n \in 1..numberOfPixels |->
            LET m == numberOfPixels + 1 - n
                px == PlayerGetRGB(f.format, frameData[(m - 1) * 3 + 1],
                                   frameData[(m - 1) * 3 + 2], frameData[(m - 1) * 3 + 3])
            IN <<Clamped(px[1]), Clamped(px[2]), Clamped(px[3]), 255>>])

\* imageData.data after the decode loop, for frame fr of file f
RenderImageData(f, fr) ==
    LET numberOfPixels == f.width * f.height
        startOfFrame == fr * numberOfPixels * 3 + HeaderBytes
        frameData == GetBytes(f.data, startOfFrame, numberOfPixels * 3)
    IN ConcatAll([n \in 1..numberOfPixels |->
            LET px == PlayerGetRGB(f.format, frameData[(n - 1) * 3 + 1],
                                   frameData[(n - 1) * 3 + 2], frameData[(n - 1) * 3 + 3])
            IN <<Clamped(px[1]), Clamped(px[2]), Clamped(px[3]), 255>>])

----------------------------------------------------------------------------
(* SpecCodec: an export followed by playback of the exported file *)

\* The raw buffer sharp returns for file k: n bytes, all different
SourceData(k, n) == [j \in 1..n |-> (k * 67 + (j - 1) * 7) % 256]

NoFile == [data |-> <<>>, frames |-> Undefined, width |-> Undefined,
           height |-> Undefined, format |-> <<>>]

\* useState<ImageOptions>: the state ImageOptions starts with
DefaultOptions == [flip |-> [horizontal |-> FALSE, vertical |-> FALSE],
                   startCorner |-> "topLeft", pixelOrder |-> "horizontal"]

\* const defaultErrorModal
DefaultErrorModal == [show |-> FALSE, data |-> <<>>]

\* No file at a path (existsSync is false)
Absent == [id |-> Null, blocks |-> <<>>]

\* An export that has not been requested
NoExport == [pc |-> "none", canceled |-> FALSE, i |-> 0, options |-> DefaultOptions,
             ino |-> Null, src |-> <<>>, before |-> Absent, asked |-> FALSE,
             tempBefore |-> Absent, canceledAt |-> <<>>, wrote |-> <<>>, sent |-> <<>>]

\* Preview's useState(0) and a player with no effect pending
ViewIdle ==
    /\ previewIndex = 0
    /\ playerPc = "idle"

\* The generator window and the export machinery as the application starts
ExportIdle ==
    /\ disk = <<>>
    /\ folderPath = ""
    /\ exports = <<>>
    /\ launched = 0
    /\ handler = 0
    /\ fs = [temp |-> Absent, out |-> Absent]
    /\ uiFiles = <<>>
    /\ imageOptions = DefaultOptions
    /\ exportModal = FALSE
    /\ errorModal = DefaultErrorModal

HeaderIdle ==
    /\ hdrIn = [length |-> 0, width |-> 0, height |-> 0, format |-> rgb]
    /\ hdrBytes = <<>>
    /\ hdrFile = NoFile
    /\ hdrPc = "idle"

InitCodec ==
    /\ format \in ColorFormat
    /\ options \in ImageOptions
    /\ \E w \in 1..MaxWidth, h \in 1..MaxHeight, ch \in ChannelCounts, n \in 1..MaxFrames :
          /\ files = [k \in 1..n |-> [width |-> w, height |-> h, name |-> k]]
          /\ images = [k \in 1..n |->
                         [data |-> SourceData(k, w * h * ch),
                          info |-> [width |-> w, height |-> h, channels |-> ch]]]
    /\ i = 0
    /\ written = <<>>
    /\ output = <<>>
    /\ emitted = <<>>
    /\ pc = "start"
    /\ error = <<>>
    /\ outFile = <<>>
    /\ file = NoFile
    /\ frame = Null
    /\ imageData = <<>>
    /\ HeaderIdle
    /\ ViewIdle
    /\ ExportIdle

\* fileWriter.on('ready'): the header is written and the frame loop starts
ExportReady ==
    /\ pc = "start"
    /\ Len(files) > 0
    /\ written' = written \o Headers(Len(files), files[1].width, files[1].height, format)
    /\ i' = 0
    /\ pc' = "writing"
    /\ UNCHANGED <<format, options, files, images, output, emitted, error, outFile,
                   file, frame, imageData, headerVars, exportVars, viewVars>>

\* One iteration of the frame loop: the image is decoded, its pixels are
\* reordered and written, or the error is rethrown.
ProcessFrame ==
    /\ pc = "writing"
    /\ i < Len(files)
    /\ LET img == images[files[i + 1].name]
           res == EncodeFrame(img.data, img.info, options, format)
       IN IF res.ok
          THEN /\ written' = written \o res.output
               /\ output' = res.output
               /\ emitted' = res.order
               /\ i' = i + 1
               /\ UNCHANGED <<pc, error>>
          ELSE /\ pc' = "failed"
               /\ error' = res.error
               /\ UNCHANGED <<written, output, emitted, i>>
    /\ UNCHANGED <<format, options, files, images, outFile, file, frame, imageData,
                   headerVars, exportVars, viewVars>>

\* The loop has ended: the stream is closed and the temp file renamed to outPath
FinishExport ==
    /\ pc = "writing"
    /\ i = Len(files)
    /\ outFile' = written
    /\ pc' = "finished"
    /\ UNCHANGED <<format, options, files, images, i, written, output, emitted, error,
                   file, frame, imageData, headerVars, exportVars, viewVars>>

\* The render effect: nothing is drawn without a frame, a width and a height
RenderEffect(f, fr, old) ==
    IF fr = Null \/ f.width = Undefined \/ f.width = 0
          \/ f.height = Undefined \/ f.height = 0
    THEN old
    ELSE RenderImageData(f, fr)

\* The player opens the exported file: the header is parsed, the file effect
\* sets the frame to 0 and the render effect draws it.
HandleOpenFile ==
    /\ outFile # <<>>
    /\ file' = ParseFile(outFile)
    /\ frame' = IF Len(outFile) > 0 THEN 0 ELSE frame
    /\ imageData' = RenderEffect(file', frame', imageData)
    /\ UNCHANGED <<format, options, files, images, i, written, output, emitted, pc,
                   error, outFile, headerVars, exportVars, viewVars>>

\* The 33 ms timer: the next frame, wrapping at file.frames, is drawn
FrameTimer ==
    /\ playerPc = "idle"
    /\ frame # Null
    /\ file.width # Undefined /\ file.width # 0
    /\ file.height # Undefined /\ file.height # 0
    /\ frame' = IF frame + 1 >= file.frames THEN 0 ELSE frame + 1
    /\ imageData' = RenderEffect(file, frame', imageData)
    /\ UNCHANGED <<format, options, files, images, i, written, output, emitted, pc,
                   error, outFile, file, headerVars, exportVars, viewVars>>

NextCodec ==
    \/ ExportReady
    \/ ProcessFrame
    \/ FinishExport
    \/ HandleOpenFile
    \/ FrameTimer

SpecCodec == InitCodec /\ [][NextCodec]_vars

----------------------------------------------------------------------------
(* SpecHeader: the header written and parsed, for header fields of any size *)

HeaderNumbers == {0, 1, 255, 256, 257, 4660, 65535, 65536, 65793}

CodecIdle ==
    /\ format = rgb
    /\ options = [flip |-> [horizontal |-> FALSE, vertical |-> FALSE],
                  startCorner |-> "topLeft", pixelOrder |-> "horizontal"]
    /\ files = <<>>
    /\ images = <<>>
    /\ i = 0
    /\ written = <<>>
    /\ output = <<>>
    /\ emitted = <<>>
    /\ pc = "idle"
    /\ error = <<>>
    /\ outFile = <<>>
    /\ file = NoFile
    /\ frame = Null
    /\ imageData = <<>>

InitHeader ==
    /\ hdrIn \in [length : HeaderNumbers, width : HeaderNumbers, height : HeaderNumbers,
                  format : ColorFormat]
    /\ hdrBytes = <<>>
    /\ hdrFile = NoFile
    /\ hdrPc = "start"
    /\ CodecIdle
    /\ ExportIdle
    /\ ViewIdle

\* The header write of the ready handler; files[0] of an empty list is
\* undefined and reading its width throws.
WriteHeader ==
    /\ hdrPc = "start"
    /\ IF hdrIn.length = 0
       THEN /\ hdrPc' = "failed"
            /\ UNCHANGED hdrBytes
       ELSE /\ hdrBytes' = Headers(hdrIn.length, hdrIn.width, hdrIn.height, hdrIn.format)
            /\ hdrPc' = "written"
    /\ UNCHANGED <<hdrIn, hdrFile, codecVars, exportVars, viewVars>>

\* The header parse of handleOpenFile
ReadHeader ==
    /\ hdrPc = "written"
    /\ hdrFile' = ParseFile(hdrBytes)
    /\ hdrPc' = "opened"
    /\ UNCHANGED <<hdrIn, hdrBytes, codecVars, exportVars, viewVars>>

NextHeader ==
    \/ WriteHeader
    \/ ReadHeader

SpecHeader == InitHeader /\ [][NextHeader]_vars

----------------------------------------------------------------------------
(* Folders *)

\* A directory entry image-size can probe, and one it throws on
Img(name, type, w, h) ==
    [name |-> name, image |-> TRUE, type |-> type, width |-> w, height |-> h]
Junk(name) ==
    [name |-> name, image |-> FALSE, type |-> "", width |-> 0, height |-> 0]

\* files.findIndex(file => file.name === item), counted from 1; 0 for -1
FindIndex(fl, item) ==
    IF \E k \in 1..Len(fl) : fl[k].name = item
    THEN CHOOSE k \in 1..Len(fl) :
            fl[k].name = item /\ \A j \in 1..(k - 1) : fl[j].name # item
    ELSE 0

\* The clean up of the ignored names: files.splice(index, 1) when index !== -1
RECURSIVE RemoveIgnored(_, _)
RemoveIgnored(fl, ignored) ==
    IF ignored = <<>> THEN fl
    ELSE LET index == FindIndex(fl, Head(ignored))
         IN RemoveIgnored(IF index # 0
                          THEN SubSeq(fl, 1, index - 1) \o SubSeq(fl, index + 1, Len(fl))
                          ELSE fl,
                          Tail(ignored))

\* The loop over fileNames: a probed file adds its params to fileParams unless
\* an equal one is there, and is pushed to files; any other name is ignored.
RECURSIVE ProbeAll(_, _)
ProbeAll(entries, acc) ==
    IF entries = <<>> THEN acc
    ELSE LET e == Head(entries)
             params == [width |-> e.width, height |-> e.height, type |-> e.type]
             known == \E k \in 1..Len(acc.fileParams) : acc.fileParams[k] = params
         IN IF e.image
            THEN ProbeAll(Tail(entries),
                          [acc EXCEPT !.fileParams = IF known THEN @ ELSE Append(@, params),
                                      !.files = Append(@, [width |-> e.width,
                                                           height |-> e.height,
                                                           type |-> e.type,
                                                           name |-> e.name])])
            ELSE ProbeAll(Tail(entries), [acc EXCEPT !.ignored = Append(@, e.name)])

\* LoadFolder that tolerates two kinds of image
LoadFolderLoose(entries) ==
    LET probed == ProbeAll(entries, [files |-> <<>>, fileParams |-> <<>>, ignored |-> <<>>])
    IN [files |-> RemoveIgnored(probed.files, probed.ignored),
        rejected |-> Len(probed.fileParams) > 2,
        data |-> probed.fileParams]

\* loadFolder: the files list it leaves in the global, whether it rejects, and
\* the data of the rejection
LoadFolder(entries) ==
    LET probed == ProbeAll(entries, [files |-> <<>>, fileParams |-> <<>>, ignored |-> <<>>])
    IN [files |-> RemoveIgnored(probed.files, probed.ignored),
        rejected |-> Len(probed.fileParams) > 1,
        data |-> probed.fileParams]

----------------------------------------------------------------------------
(* SpecExport: the generator window, the main process and the output folder *)

codecRest == <<format, options, images, i, written, output, emitted, pc, error,
               outFile, file, frame, imageData>>

\* The folders the directory dialog can select: frames of one kind with a file
\* that is no image, frames of two sizes, and no image at all
ExportDisk ==
    [uniform |-> [k \in 1..MaxFrames |-> Img(k, "png", 2, 1)] \o <<Junk(MaxFrames + 1)>>,
     mixed |-> <<Img(1, "png", 2, 1), Img(2, "png", 1, 1)>>,
     empty |-> <<Junk(1)>>]

\* The options the buttons of ImageOptions are set to in this model
UiOptions == {DefaultOptions, [DefaultOptions EXCEPT !.pixelOrder = "verticalAlternate"]}

\* A file that is at outPath before any export
OldFile == [id |-> 0, blocks |-> <<[kind |-> "other", by |-> 0]>>]

\* A file named temp.wbmani that is in the output folder before any export
OldTemp == [id |-> Undefined, blocks |-> <<[kind |-> "other", by |-> 0]>>]

\* No modal is open: the buttons of the generator can be clicked
\* Preview's render reads files[state].name: a TypeError when files[state]
\* is undefined, which unmounts the window's React tree
PreviewThrows == Len(uiFiles) > 0 /\ previewIndex >= Len(uiFiles)

UiIdle == ~exportModal /\ ~errorModal.show /\ ~PreviewThrows

InitExport ==
    /\ CodecIdle
    /\ HeaderIdle
    /\ ViewIdle
    /\ disk = ExportDisk
    /\ folderPath = ""
    /\ exports = <<>>
    /\ launched = 0
    /\ handler = 0
    /\ fs \in [temp : {Absent, OldTemp}, out : {Absent, OldFile}]
    /\ uiFiles = <<>>
    /\ imageOptions = DefaultOptions
    /\ exportModal = FALSE
    /\ errorModal = DefaultErrorModal

\* 'Select Folder Of Images': the chooseFolder handler and the renderer's
\* then / catch. ImageOptions mounts, with its initial state, once there are files.
SelectFolder ==
    /\ UiIdle
    /\ \E res \in {"canceled"} \cup DOMAIN disk :
          IF res = "canceled"
          THEN UNCHANGED <<folderPath, files, uiFiles, imageOptions, errorModal,
                           previewIndex>>
          ELSE LET loaded == LoadFolder(disk[res])
               IN /\ folderPath' = res
                  /\ files' = loaded.files
                  /\ IF loaded.rejected
                     THEN /\ errorModal' = [show |-> TRUE, data |-> loaded.data]
                          /\ UNCHANGED <<uiFiles, imageOptions, previewIndex>>
                     ELSE /\ uiFiles' = loaded.files
                          /\ imageOptions' = IF Len(uiFiles) = 0 /\ Len(loaded.files) > 0
                                             THEN DefaultOptions ELSE imageOptions
                          /\ previewIndex' = IF Len(loaded.files) > 0
                                              THEN previewIndex ELSE 0
                          /\ UNCHANGED errorModal
    /\ UNCHANGED <<codecRest, headerVars, playerPc, disk, exports, launched, handler, fs,
                   exportModal>>

\* The Close button of the error modal
CloseError ==
    /\ errorModal.show
    /\ errorModal' = DefaultErrorModal
    /\ UNCHANGED <<codecVars, headerVars, viewVars, disk, folderPath, exports, launched, handler,
                   fs, uiFiles, imageOptions, exportModal>>

\* 'Clear Images': the clearImages handler and setFiles(res)
ClearImages ==
    /\ UiIdle
    /\ Len(uiFiles) > 0
    /\ folderPath' = ""
    /\ files' = <<>>
    /\ uiFiles' = <<>>
    /\ previewIndex' = 0
    /\ UNCHANGED <<codecRest, headerVars, playerPc, disk, exports, launched, handler, fs,
                   imageOptions, exportModal, errorModal>>

\* A button of ImageOptions: setState, then the effect's setOptions(state)
SetOptions ==
    /\ UiIdle
    /\ Len(uiFiles) > 0
    /\ \E o \in UiOptions \ {imageOptions} : imageOptions' = o
    /\ UNCHANGED <<codecVars, headerVars, viewVars, disk, folderPath, exports, launched, handler,
                   fs, uiFiles, exportModal, errorModal>>

\* The Export button: chooseOutput, the modal opens, Export mounts and sends
\* 'export'; the listener creates the stream and registers 'cancelExport',
\* which throws when a handler is registered already.
ClickExport ==
    /\ UiIdle
    /\ Len(uiFiles) > 0
    /\ launched < MaxExports
    /\ \E res \in {"canceled", "out"} :
          IF res = "canceled"
          THEN UNCHANGED <<exports, launched, handler, exportModal>>
          ELSE /\ exportModal' = TRUE
               /\ launched' = launched + 1
               /\ exports' = Append(exports, [NoExport EXCEPT !.pc = "opening",
                                                             !.options = imageOptions,
                                                             !.before = fs.out,
                                                             !.tempBefore = fs.temp])
               /\ handler' = IF handler = 0 THEN launched + 1 ELSE handler
    /\ UNCHANGED <<codecVars, headerVars, viewVars, disk, folderPath, fs, uiFiles, imageOptions,
                   errorModal>>

\* The Cancel button of the export modal: the registered handler sets the
\* `canceled` of its own closure and the modal closes; with no handler the
\* invoke rejects and the modal stays. `asked` notes a cancel requested for the
\* export the modal shows before that export starts finalizing.
CancelExport ==
    /\ exportModal
    /\ LET noted == [exports EXCEPT ![launched].asked =
                        @ \/ exports[launched].pc \in {"opening", "decoding"}]
       IN IF handler # 0
          THEN /\ exports' = [noted EXCEPT ![handler].canceled = TRUE,
                                            ![handler].canceledAt =
                                               IF exports[handler].canceled THEN @
                                               ELSE <<exports[handler].pc,
                                                      exports[handler].i>>]
               /\ exportModal' = FALSE
          ELSE /\ exports' = noted
               /\ UNCHANGED exportModal
    /\ UNCHANGED <<codecVars, headerVars, viewVars, disk, folderPath, launched, handler, fs,
                   uiFiles, imageOptions, errorModal>>

\* fileWriter.write(block) on the stream whose file is ino: the block is
\* appended to that file, under whichever name it has now
WriteTo(fsys, ino, block) ==
    [p \in DOMAIN fsys |->
        IF fsys[p].id = ino THEN [fsys[p] EXCEPT !.blocks = Append(@, block)] ELSE fsys[p]]

\* The frame loop without its `if (canceled) break`
LoopHeadUnchecked(e, ex, fsys, idx) ==
    /\ fs' = fsys
    /\ IF idx < Len(files)
       THEN /\ exports' = [exports EXCEPT ![e] =
                              [ex EXCEPT !.pc = "decoding", !.i = idx,
                                         !.src = <<folderPath, files[idx + 1].name>>]]
            /\ UNCHANGED handler
       ELSE /\ exports' = [exports EXCEPT ![e] =
                              [ex EXCEPT !.pc = IF ex.canceled THEN "closing"
                                                               ELSE "finishing",
                                         !.i = idx]]
            /\ handler' = 0

\* The head of the frame loop at index idx, and what follows the loop: the
\* next decode is started, or the stream is closed for 'finish' or 'close' and
\* the 'cancelExport' handler is removed.
LoopHead(e, ex, fsys, idx) ==
    /\ fs' = fsys
    /\ IF idx < Len(files) /\ ~ex.canceled
       THEN /\ exports' = [exports EXCEPT ![e] =
                              [ex EXCEPT !.pc = "decoding", !.i = idx,
                                         !.src = <<folderPath, files[idx + 1].name>>]]
            /\ UNCHANGED handler
       ELSE /\ exports' = [exports EXCEPT ![e] =
                              [ex EXCEPT !.pc = IF ex.canceled THEN "closing"
                                                               ELSE "finishing",
                                         !.i = idx]]
            /\ handler' = 0

\* fileWriter.on('ready'): the temp file is there, created or truncated; the
\* header is written, or files[0] of an empty list throws; the loop starts.
Ready(e) ==
    /\ exports[e].pc = "opening"
    /\ LET ino == IF fs.temp = Absent THEN e ELSE fs.temp.id
           ex == [exports[e] EXCEPT !.ino = ino]
           opened == [fs EXCEPT !.temp = [id |-> ino, blocks |-> <<>>]]
           header == [kind |-> "header", by |-> e,
                      bytes |-> Headers(Len(files), files[1].width, files[1].height, rgb)]
       IN IF Len(files) = 0
          THEN /\ fs' = opened
               /\ exports' = [exports EXCEPT ![e] = [ex EXCEPT !.pc = "failed"]]
               /\ UNCHANGED handler
          ELSE LoopHead(e, [ex EXCEPT !.wrote = Append(@, header)],
                        WriteTo(opened, ino, header), 0)
    /\ UNCHANGED <<codecVars, headerVars, viewVars, disk, folderPath, launched, uiFiles,
                   imageOptions, exportModal, errorModal>>

\* The await of sharp ends: 'processedFrame' is sent with files[i].name, the
\* frame is reordered and written and the loop goes on; or sharp rejects,
\* files[i] is undefined or the reordering throws, and the catch closes the
\* stream and rethrows.
FrameDone(e) ==
    /\ exports[e].pc = "decoding"
    /\ LET ex == exports[e]
           dir == IF ex.src[1] \in DOMAIN disk THEN disk[ex.src[1]] ELSE <<>>
           found == {k \in 1..Len(dir) : dir[k].name = ex.src[2] /\ dir[k].image}
           ent == dir[CHOOSE k \in found : TRUE]
           info == [width |-> ent.width, height |-> ent.height, channels |-> 3]
           block == [kind |-> "frame", by |-> e, folder |-> ex.src[1], name |-> ent.name,
                     width |-> info.width, height |-> info.height, index |-> ex.i]
           told == [ex EXCEPT !.sent = Append(@, <<"processedFrame", files[ex.i + 1].name>>)]
       IN IF found = {} \/ ex.i >= Len(files)
          THEN /\ exports' = [exports EXCEPT ![e].pc = "failed"]
               /\ UNCHANGED <<fs, handler>>
          ELSE IF ~ReorderPixels(ex.options, info).ok
          THEN /\ exports' = [exports EXCEPT ![e] = [told EXCEPT !.pc = "failed"]]
               /\ UNCHANGED <<fs, handler>>
          ELSE LoopHead(e, [told EXCEPT !.wrote = Append(@, block)],
                        WriteTo(fs, ex.ino, block), ex.i + 1)
    /\ UNCHANGED <<codecVars, headerVars, viewVars, disk, folderPath, launched, uiFiles,
                   imageOptions, exportModal, errorModal>>

\* fileWriter.on('finish'): outPath is unlinked, the temp file renamed to it
\* and 'finishedExport' closes the modal; renameSync throws with no temp file.
Finish(e) ==
    /\ exports[e].pc = "finishing"
    /\ IF fs.temp = Absent
       THEN /\ fs' = [fs EXCEPT !.out = Absent]
            /\ exports' = [exports EXCEPT ![e].pc = "renameFailed"]
            /\ UNCHANGED exportModal
       ELSE /\ fs' = [temp |-> Absent, out |-> fs.temp]
            /\ exports' = [exports EXCEPT ![e].pc = "done",
                                          ![e].sent = Append(@, <<"finishedExport">>)]
            /\ exportModal' = FALSE
    /\ UNCHANGED <<codecVars, headerVars, viewVars, disk, folderPath, launched, handler, uiFiles,
                   imageOptions, errorModal>>

\* fileWriter.on('close') of a canceled export: the temp file is unlinked
Closed(e) ==
    /\ exports[e].pc = "closing"
    /\ fs' = [fs EXCEPT !.temp = Absent]
    /\ exports' = [exports EXCEPT ![e].pc = "cancelled"]
    /\ UNCHANGED <<codecVars, headerVars, viewVars, disk, folderPath, launched, handler, uiFiles,
                   imageOptions, exportModal, errorModal>>

NextExport ==
    \/ SelectFolder
    \/ CloseError
    \/ ClearImages
    \/ SetOptions
    \/ ClickExport
    \/ CancelExport
    \/ \E e \in 1..launched : Ready(e)
    \/ \E e \in 1..launched : FrameDone(e)
    \/ \E e \in 1..launched : Finish(e)
    \/ \E e \in 1..launched : Closed(e)

SpecExport == InitExport /\ [][NextExport]_vars

----------------------------------------------------------------------------
(* SpecFolder: loadFolder over every directory listing of up to MaxEntries names *)

ImageTypes == {"png", "jpg"}
ImageSides == {1, 2}

\* What a name of the directory can be: no image, or an image of some type and size
EntryKinds ==
    {Junk(0)} \cup {Img(0, t, w, h) : t \in ImageTypes, w \in ImageSides, h \in ImageSides}

\* The listings readdirSync can return: the k-th name is k
Listings ==
    UNION {{[k \in 1..n |-> [kinds[k] EXCEPT !.name = k]] : kinds \in [1..n -> EntryKinds]}
             : n \in 0..MaxEntries}

InitFolder ==
    /\ CodecIdle
    /\ HeaderIdle
    /\ ViewIdle
    /\ disk \in {[picked |-> l] : l \in Listings}
    /\ folderPath = ""
    /\ exports = <<>>
    /\ launched = 0
    /\ handler = 0
    /\ fs = [temp |-> Absent, out |-> Absent]
    /\ uiFiles = <<>>
    /\ imageOptions = DefaultOptions
    /\ exportModal = FALSE
    /\ errorModal = DefaultErrorModal

NextFolder ==
    \/ SelectFolder
    \/ CloseError
    \/ ClearImages

SpecFolder == InitFolder /\ [][NextFolder]_vars

----------------------------------------------------------------------------
(* SpecPlayer: the player opens a container with any three format bytes *)

\* Bytes 6-8 of the files opened: r, g, b, x and a zero byte
FormatByteValues == {114, 103, 98, 120, 0}

\* The files the open dialog can return: a header of n frames of w x h with
\* any three format bytes, followed by the n frames
PlayerFiles ==
    {Headers(n, w, h, rgb)
        \o SourceData(1, n * w * h * 3) :
            n \in 1..MaxFrames, w \in 1..MaxWidth, h \in 1..MaxHeight}

InitPlayer ==
    /\ format = rgb
    /\ options = DefaultOptions
    /\ files = <<>>
    /\ images = <<>>
    /\ i = 0
    /\ written = <<>>
    /\ output = <<>>
    /\ emitted = <<>>
    /\ pc = "idle"
    /\ error = <<>>
    /\ \E f \in PlayerFiles, b6, b7, b8 \in FormatByteValues :
          outFile = [f EXCEPT ![7] = b6, ![8] = b7, ![9] = b8]
    /\ file = NoFile
    /\ frame = Null
    /\ imageData = <<>>
    /\ HeaderIdle
    /\ ViewIdle
    /\ ExportIdle

NextPlayer ==
    \/ HandleOpenFile
    \/ FrameTimer

SpecPlayer == InitPlayer /\ [][NextPlayer]_vars

----------------------------------------------------------------------------
(* What the claims speak of *)

\* At least one frame has been encoded and written by the running or finished export
FrameEmitted == pc \in {"writing", "finished"} /\ i > 0

\* The decoded image of the frame processed last, and its size
LastImage == images[files[i].name]
W == LastImage.info.width
H == LastImage.info.height
Rows == 0..(H - 1)
Cols == 0..(W - 1)

\* (R, G, B) of the source pixel with row-major index n of image img
SourceRGB(img, n) ==
    <<img.data[n * img.info.channels + 1], img.data[n * img.info.channels + 2],
      img.data[n * img.info.channels + 3]>>

\* The three bytes written at output position k (from 0) of the last frame
OutPixel(k) == <<output[3 * k + 1], output[3 * k + 2], output[3 * k + 3]>>

\* The displayed (R, G, B) at display position k (from 0)
ShownPixel(k) == <<imageData[4 * k + 1], imageData[4 * k + 2], imageData[4 * k + 3]>>

Bytes(px) == {px[1], px[2], px[3]}

Is(corner, order) == options.startCorner = corner /\ options.pixelOrder = order

\* Source pixel (row, col) is emitted at output position pos(row, col), and the
\* bytes written there are that pixel's three channel bytes
EmitsAt(Pos(_, _)) ==
    /\ Len(emitted) = W * H
    /\ \A row \in Rows, col \in Cols :
          /\ emitted[Pos(row, col) + 1] = row * W + col
          /\ Bytes(OutPixel(Pos(row, col))) = Bytes(SourceRGB(LastImage, row * W + col))

\* The channel order each format names, for a source pixel (R, G, B)
NamedOrder(fmt, px) ==
    LET R == px[1]  G == px[2]  B == px[3]
    IN CASE fmt = rgb -> <<R, G, B>>
         [] fmt = rbg -> <<R, B, G>>
         [] fmt = bgr -> <<B, G, R>>
         [] fmt = brg -> <<B, R, G>>
         [] fmt = grb -> <<G, R, B>>
         [] fmt = gbr -> <<G, B, R>>

----------------------------------------------------------------------------
(* Claims *)

\* C1: for each of the 6 formats, the three bytes the exporter writes for a
\* source pixel (R,G,B) are its channels in the order the format names.
\* The exporter's brg and gbr cases write (G,B,R) and (B,R,G): violated.
C1_WritesChannelsInNamedOrder ==
    FrameEmitted =>
        \A k \in 0..(Len(emitted) - 1) :
            OutPixel(k) = NamedOrder(format, SourceRGB(LastImage, emitted[k + 1]))

\* C2: a source pixel (R,G,B) exported under format f and decoded by the player
\* under f is displayed as (R,G,B). Violated for brg and gbr, where the exporter
\* and the player apply the same 3-cycle instead of inverse ones.
C2_ExportThenPlayShowsSource ==
    (pc = "finished" /\ frame # Null /\ imageData # <<>>) =>
        \A k \in 0..(Len(emitted) - 1) :
            ShownPixel(k) = SourceRGB(images[files[frame + 1].name], emitted[k + 1])

AsciiOf(ch) == CASE ch = "r" -> 114 [] ch = "g" -> 103 [] ch = "b" -> 98

BigEndianAt(bytes, p, n) ==
    n \in 0..65535 => (bytes[p] = n \div 256 /\ bytes[p + 1] = n % 256)

\* C3: the header written is exactly 9 bytes: frameCount, width and height in
\* that order, each 16-bit big-endian (high byte n div 256, low byte n mod 256
\* for 0 <= n <= 65535), then the 3 ASCII bytes of the color format name.
C3_HeaderLayout ==
    hdrPc \in {"written", "opened"} =>
        /\ Len(hdrBytes) = 9
        /\ BigEndianAt(hdrBytes, 1, hdrIn.length)
        /\ BigEndianAt(hdrBytes, 3, hdrIn.width)
        /\ BigEndianAt(hdrBytes, 5, hdrIn.height)
        /\ \A k \in 1..3 : hdrBytes[6 + k] = AsciiOf(hdrIn.format[k])

C3_Witness ==
    /\ hdrPc = "written"
    /\ hdrIn = [length |-> 4660, width |-> 65535, height |-> 256, format |-> gbr]
    /\ hdrBytes = <<18, 52, 255, 255, 1, 0, 103, 98, 114>>

\* C4: header round-trip: for frameCount, width, height in 1..65535 and each of
\* the 6 formats, parsing the 9 header bytes written yields the same
\* frameCount, width, height and color format.
C4_HeaderRoundTrip ==
    (/\ hdrPc = "opened"
     /\ hdrIn.length \in 1..65535
     /\ hdrIn.width \in 1..65535
     /\ hdrIn.height \in 1..65535) =>
        /\ hdrFile.frames = hdrIn.length
        /\ hdrFile.width = hdrIn.width
        /\ hdrFile.height = hdrIn.height
        /\ hdrFile.format = hdrIn.format

C4_Witness ==
    /\ hdrPc = "opened"
    /\ hdrIn = [length |-> 65535, width |-> 257, height |-> 4660, format |-> brg]
    /\ hdrFile.frames = 65535 /\ hdrFile.width = 257 /\ hdrFile.height = 4660
    /\ hdrFile.format = brg

\* The RGB bytes of an image in source order, alpha dropped
SourceRGBBytes(img) ==
    [b \in 1..(3 * img.info.width * img.info.height) |->
        img.data[((b - 1) \div 3) * img.info.channels + ((b - 1) % 3) + 1]]

\* C5: for topLeft+horizontal, topLeft+vertical, topLeft+horizontalAlternate,
\* topRight+horizontal, bottomLeft+horizontal and bottomRight+vertical, source
\* pixels are emitted in exactly the listed order; with format rgb,
\* topLeft+horizontal is the identity on the source RGB bytes.
C5_ListedTraversals ==
    FrameEmitted =>
        /\ Is("topLeft", "horizontal") => EmitsAt(LAMBDA row, col : row * W + col)
        /\ Is("topLeft", "vertical") => EmitsAt(LAMBDA row, col : col * H + row)
        /\ Is("topLeft", "horizontalAlternate") =>
              EmitsAt(LAMBDA row, col :
                        row * W + (IF row % 2 = 0 THEN col ELSE W - 1 - col))
        /\ Is("topRight", "horizontal") =>
              EmitsAt(LAMBDA row, col : row * W + (W - 1 - col))
        /\ Is("bottomLeft", "horizontal") =>
              EmitsAt(LAMBDA row, col : (H - 1 - row) * W + col)
        /\ Is("bottomRight", "vertical") =>
              EmitsAt(LAMBDA row, col : (W - 1 - col) * H + (H - 1 - row))
        /\ (Is("topLeft", "horizontal") /\ format = rgb) =>
              output = SourceRGBBytes(LastImage)

C5_Witness ==
    /\ FrameEmitted
    /\ Is("topLeft", "horizontalAlternate")
    /\ W = 2 /\ H = 3
    /\ emitted = <<0, 1, 3, 2, 4, 5>>

\* C6: for topRight+horizontalAlternate, rows are emitted top to bottom, each
\* even row with col descending and each odd row with col ascending.
\* The exporter's topRight branch repeats the topLeft snake: violated.
C6_TopRightSnake ==
    (FrameEmitted /\ Is("topRight", "horizontalAlternate")) =>
        EmitsAt(LAMBDA row, col : row * W + (IF row % 2 = 0 THEN W - 1 - col ELSE col))

\* C7: topLeft+verticalAlternate is legal: the export succeeds and emits pixels
\* column-major, cols left to right, even cols row ascending, odd cols row
\* descending. The exporter throws Unsupported pixel order: violated.
C7_TopLeftVerticalSnake ==
    Is("topLeft", "verticalAlternate") =>
        /\ pc # "failed"
        /\ FrameEmitted =>
              EmitsAt(LAMBDA row, col :
                        col * H + (IF col % 2 = 0 THEN row ELSE H - 1 - row))

C9_FirstPixelAtStartCorner ==
    FrameEmitted =>
        emitted[1] = CASE options.startCorner = "topLeft" -> 0 * W + 0
                       [] options.startCorner = "topRight" -> 0 * W + (W - 1)
                       [] options.startCorner = "bottomLeft" -> (H - 1) * W + 0
                       [] options.startCorner = "bottomRight" -> (H - 1) * W + (W - 1)

\* C10: traversal bijection: for every accepted pair, the pixels emitted for one
\* frame visit each of the width*height grid cells exactly once.
C10_TraversalBijection ==
    FrameEmitted =>
        /\ \A n \in 0..(W * H - 1) :
              Cardinality({k \in 1..Len(emitted) : emitted[k] = n}) = 1
        /\ \A k \in 1..Len(emitted) :
              /\ emitted[k] \in 0..(W * H - 1)
              /\ Bytes(OutPixel(k - 1)) = Bytes(SourceRGB(LastImage, emitted[k]))
        /\ Len(output) = 3 * Len(emitted)

C10_Witness ==
    /\ FrameEmitted
    /\ Is("topRight", "horizontalAlternate")
    /\ W = 3 /\ H = 3
    /\ Len(emitted) = 9


----------------------------------------------------------------------------
(* Illegal combinations *)

IllegalPairs ==
    { <<"topRight", "vertical">>, <<"topRight", "verticalAlternate">>,
      <<"bottomLeft", "vertical">>, <<"bottomLeft", "horizontalAlternate">>,
      <<"bottomRight", "horizontal">>, <<"bottomRight", "horizontalAlternate">> }

IllegalPair == <<options.startCorner, options.pixelOrder>> \in IllegalPairs

\* C11: for each of the six pairs absent from the legal list the exporter
\* raises an error naming the start corner and the pixel order, and emits no
\* frame bytes in any substituted order: the export never gets past its first
\* frame, and nothing but the header has been written.
C11_IllegalPairRaises ==
    IllegalPair =>
        /\ pc \in {"start", "writing", "failed"}
        /\ i = 0
        /\ output = <<>> /\ emitted = <<>>
        /\ Len(written) <= HeaderBytes
        /\ outFile = <<>>
        /\ pc = "failed" =>
              /\ options.startCorner \in {error[k] : k \in 1..Len(error)}
              /\ options.pixelOrder \in {error[k] : k \in 1..Len(error)}
              /\ error = <<"Unsupported pixel order", options.pixelOrder,
                           "for startCorner", options.startCorner>>
        /\ pc = "writing" => ENABLED ProcessFrame

C11_Witness ==
    /\ Is("bottomRight", "horizontal")
    /\ pc = "failed"
    /\ Len(written) = HeaderBytes
    /\ error = <<"Unsupported pixel order", "horizontal", "for startCorner", "bottomRight">>

----------------------------------------------------------------------------
(* Flip *)

\* The raw buffer of img with the column index mirrored when fl.horizontal is
\* set and the row index mirrored when fl.vertical is set
FlippedData(img, fl) ==
    LET w == img.info.width
        h == img.info.height
        ch == img.info.channels
    IN [j \in 1..Len(img.data) |->
          LET px == (j - 1) \div ch
              c == (j - 1) % ch
              row == px \div w
              col == px % w
              srow == IF fl.vertical THEN h - 1 - row ELSE row
              scol == IF fl.horizontal THEN w - 1 - col ELSE col
          IN img.data[(srow * w + scol) * ch + c + 1]]

\* C12: flip is applied to the source before traversal: the exported frame
\* equals the export of the source with each column index col replaced by
\* width-1-col when flip.horizontal is set and each row index row replaced by
\* height-1-row when flip.vertical is set; with both unset the source is used
\* unchanged. Violated whenever a flip that changes the image is set: the
\* export never reads options.flip.
C12_FlipBeforeTraversal ==
    FrameEmitted =>
        output = EncodeFrame(FlippedData(LastImage, options.flip), LastImage.info,
                             options, format).output

----------------------------------------------------------------------------
(* The export's files *)

\* The length in bytes of a block written to the stream
BlockSize(block) ==
    CASE block.kind = "header" -> Len(block.bytes)
      [] block.kind = "frame" -> block.width * block.height * 3
      [] OTHER -> 0

RECURSIVE SizeOf(_)
SizeOf(blocks) == IF blocks = <<>> THEN 0 ELSE BlockSize(Head(blocks)) + SizeOf(Tail(blocks))

FrameBlocks(f) == SelectSeq(f.blocks, LAMBDA b : b.kind = "frame")

\* The header of a file an export wrote
HeaderOf(f) == ParseFile(f.blocks[1].bytes)

\* Export e has reported completion and the file it renamed is at outPath
Completed(e) == exports[e].pc = "done" /\ fs.out.id = exports[e].ino

\* C13: for every export that reports completion, the file at the output path
\* is exactly 9 + frameCount*width*height*3 bytes long, frameCount, width and
\* height being the values stored in that file's header, and frameCount equals
\* the number of source frames exported.
C13_CompletedFileSize ==
    \A e \in 1..launched :
        Completed(e) =>
            /\ fs.out.blocks # <<>>
            /\ fs.out.blocks[1].kind = "header"
            /\ SizeOf(fs.out.blocks) =
                  9 + HeaderOf(fs.out).frames * HeaderOf(fs.out).width
                        * HeaderOf(fs.out).height * 3
            /\ HeaderOf(fs.out).frames = Len(FrameBlocks(fs.out))

\* No export has a stream open or an event to come
Quiet ==
    \A o \in 1..launched :
        exports[o].pc \in {"failed", "done", "renameFailed", "cancelled"}

\* C14: if cancel is requested at any point before the export starts
\* finalizing, the export ends cancelled: it never goes on to finish, fail or
\* rename, what was at the output path before the export is left as it was,
\* and no temp file remains once its cleanup has run.
C14_CancelEndsCancelled ==
    \A e \in 1..launched :
        exports[e].asked =>
            /\ exports[e].pc \in {"opening", "decoding", "closing", "cancelled"}
            /\ exports[e].pc \in {"opening", "decoding", "closing"} =>
                  fs.out = exports[e].before
            /\ (exports[e].pc = "cancelled" /\ e = launched /\ Quiet) =>
                  fs.temp = Absent /\ fs.out = exports[e].before

\* Export e ended in the catch of the frame loop: a frame's decoding or
\* encoding failed
FrameFailed(e) == exports[e].pc = "failed" /\ exports[e].src # <<>>

\* C15: if decoding or encoding any frame fails, the export processes no
\* further frames, deletes its temp file and leaves the final output path
\* untouched: once the failed export is over and nothing else runs, there is
\* no temp file and the output path holds what it held before the export.
C15_FailureDiscardsTemp ==
    \A e \in 1..launched :
        (FrameFailed(e) /\ e = launched /\ Quiet) =>
            /\ fs.temp = Absent
            /\ fs.out = exports[e].before

----------------------------------------------------------------------------
(* Folder loading *)

\* The directory listing of the folder of SpecFolder
Listing == disk.picked

\* The names of the listing image-size can probe, in directory order
Probed == SelectSeq(Listing, LAMBDA e : e.image)

\* The distinct (type, width, height) triples of the image files of the listing
Triples == {<<Probed[k].type, Probed[k].width, Probed[k].height>> : k \in 1..Len(Probed)}

\* The frame list of an accepted load
ProbedFrames ==
    [k \in 1..Len(Probed) |-> [width |-> Probed[k].width, height |-> Probed[k].height,
                               type |-> Probed[k].type, name |-> Probed[k].name]]

\* C16: loading a folder is rejected if and only if its image files have more
\* than one distinct (type,width,height) triple; the rejection carries every
\* distinct triple exactly once; files that cannot be probed are left out of
\* the frame list and never cause a rejection; on acceptance the frame list is
\* the probe-able files in directory order.
C16_LoadFolderVerdict ==
    /\ errorModal.show =>
          /\ Cardinality(Triples) > 1
          /\ Len(errorModal.data) = Cardinality(Triples)
          /\ \A t \in Triples :
                Cardinality({k \in 1..Len(errorModal.data) :
                               <<errorModal.data[k].type, errorModal.data[k].width,
                                 errorModal.data[k].height>> = t}) = 1
    /\ Cardinality(Triples) > 1 => uiFiles = <<>>
    /\ (Cardinality(Triples) <= 1 /\ folderPath = "picked") =>
          /\ ~errorModal.show
          /\ files = ProbedFrames
          /\ uiFiles = ProbedFrames
    /\ folderPath = "picked" =>
          \A k \in 1..Len(files) : \E j \in 1..Len(Listing) :
              Listing[j].image /\ Listing[j].name = files[k].name

C16_Witness ==
    /\ errorModal.show
    /\ Len(Listing) = 3
    /\ ~Listing[2].image
    /\ Len(errorModal.data) = 2
    /\ Len(files) = 2

----------------------------------------------------------------------------
(* Exports and the frame list *)

\* C17: after any sequence of folder loads (accepted, rejected or cancelled),
\* clears and export requests, every export that writes any byte uses a frame
\* list whose frames all have the width and height of the header; the frames
\* of a folder whose load was rejected for inconsistent dimensions are never
\* exported: no byte is written for them.
C17_ExportsUniformFrames ==
    \A p \in DOMAIN fs :
        \A k \in 1..Len(fs[p].blocks) :
            fs[p].blocks[k].kind = "frame" =>
                /\ fs[p].blocks[1].kind = "header"
                /\ fs[p].blocks[k].width = HeaderOf(fs[p]).width
                /\ fs[p].blocks[k].height = HeaderOf(fs[p]).height
                /\ ~LoadFolder(disk[fs[p].blocks[k].folder]).rejected

\* C18: at most one export is active at any time: an export request that
\* arrives while another export is still writing does not start a second
\* writer, and a temp file is only ever written by one export from its
\* creation to its rename or deletion.
C18_SingleActiveExport ==
    /\ \A e1, e2 \in 1..launched :
          (e1 # e2 /\ exports[e1].pc = "decoding") =>
              exports[e2].pc \notin {"opening", "decoding"}
    /\ \A p \in DOMAIN fs :
          \A j, k \in 1..Len(fs[p].blocks) : fs[p].blocks[j].by = fs[p].blocks[k].by

----------------------------------------------------------------------------
(* Header ranges and unknown color formats *)

InRange(n) == n \in 1..65535

\* C19: writing the header fails with an out-of-range error whenever
\* frameCount, width or height is 0 or greater than 65535; no container is
\* produced whose header holds a zero field or a value reduced modulo 65536.
C19_HeaderRangeChecked ==
    /\ ~(InRange(hdrIn.length) /\ InRange(hdrIn.width) /\ InRange(hdrIn.height)) =>
          hdrPc \in {"start", "failed"} /\ hdrBytes = <<>>
    /\ hdrPc \in {"written", "opened"} =>
          \A p \in {1, 3, 5} : hdrBytes[p] * 256 + hdrBytes[p + 1] # 0

\* The three format bytes of the file on disk name one of the six formats
KnownFormat ==
    <<outFile[7], outFile[8], outFile[9]>> \in
        {<<AsciiOf(f[1]), AsciiOf(f[2]), AsciiOf(f[3])>> : f \in ColorFormat}

\* C20: reading a container whose header bytes 6-8 are not one of rgb, rbg,
\* bgr, brg, grb, gbr fails with an unknown-color-format error: the file is
\* not opened and no frame of it is decoded or displayed.
C20_UnknownFormatRejected ==
    ~KnownFormat => (file = NoFile /\ frame = Null /\ imageData = <<>>)

\* C20 as the player behaves: a container whose header bytes 6-8 are not one
\* of the six format names is opened like any other, and every pixel of the
\* frame shown is displayed with its three stored bytes unchanged as (R,G,B)
\* and alpha 255.
C20_UnknownFormatPassThrough ==
    (~KnownFormat /\ file # NoFile) =>
        /\ file.data = outFile
        /\ frame \in 0..(file.frames - 1)
        /\ Len(imageData) = 4 * file.width * file.height
        /\ \A k \in 0..(file.width * file.height - 1) :
              LET at == HeaderBytes + frame * file.width * file.height * 3 + 3 * k
              IN /\ ShownPixel(k) = <<outFile[at + 1], outFile[at + 2], outFile[at + 3]>>
                 /\ imageData[4 * k + 4] = 255

C20_Witness ==
    /\ <<outFile[7], outFile[8], outFile[9]>> = <<120, 103, 0>>
    /\ file # NoFile
    /\ file.width = 2 /\ file.height = 2
    /\ frame = 1
    /\ Len(imageData) = 16

----------------------------------------------------------------------------
(* The player's decoding *)

\* The position (1..3) of channel ch in the format name fmt
ChannelPos(fmt, ch) == CHOOSE j \in 1..3 : fmt[j] = ch

\* The three stored bytes of pixel k of the frame shown, read from the file on disk
StoredPixel(k) ==
    LET at == HeaderBytes + frame * file.width * file.height * 3 + 3 * k
    IN <<outFile[at + 1], outFile[at + 2], outFile[at + 3]>>

\* C21: for each of the 6 formats, the player maps a stored pixel whose three
\* bytes are laid out as the format names them to the display triple (R,G,B),
\* writes stored pixel i of the frame to display position i, and sets its
\* alpha to 255.
C21_PlayerDecodesNamedLayout ==
    (KnownFormat /\ file # NoFile /\ frame # Null) =>
        /\ Len(imageData) = 4 * file.width * file.height
        /\ \A k \in 0..(file.width * file.height - 1) :
              /\ ShownPixel(k) = <<StoredPixel(k)[ChannelPos(file.format, "r")],
                                   StoredPixel(k)[ChannelPos(file.format, "g")],
                                   StoredPixel(k)[ChannelPos(file.format, "b")]>>
              /\ imageData[4 * k + 4] = 255

C21_Witness ==
    /\ <<outFile[7], outFile[8], outFile[9]>> = <<103, 98, 114>>
    /\ file.format = gbr
    /\ file.width = 2 /\ file.height = 1
    /\ frame = 1
    /\ ShownPixel(1) = <<StoredPixel(1)[3], StoredPixel(1)[1], StoredPixel(1)[2]>>

----------------------------------------------------------------------------
(* How exports end *)

\* The kinds of the notifications export e has sent to the window
SentKinds(e) == {exports[e].sent[k][1] : k \in 1..Len(exports[e].sent)}

\* C22: every started export ends in exactly one of Done, Cancelled or failed
\* and the UI is told which: an export-complete notification for Done, sent
\* only once the output file is in place, an export-cancelled notification
\* for Cancelled, the triggering error for a failure; no export ends silently.
C22_EveryEndIsTold ==
    \A e \in 1..launched :
        /\ "finishedExport" \in SentKinds(e) => exports[e].pc = "done"
        /\ exports[e].pc = "done" => "finishedExport" \in SentKinds(e)
        /\ exports[e].pc = "cancelled" => "exportCancelled" \in SentKinds(e)
        /\ exports[e].pc \in {"failed", "renameFailed"} => "exportError" \in SentKinds(e)


----------------------------------------------------------------------------
(* SpecPlayback: the player opening files one after another, playing and
   clearing them *)

\* The files the open dialog can pick: well-formed containers
PlaybackFiles == PlayerFiles

\* handleOpenFile and the commit of its setFile: the file effect queues
\* setFrame(0), then the render effect of the same commit draws with the
\* frame state of that render
OpenAniFile ==
    /\ playerPc = "idle"
    /\ \E res \in {<<>>} \cup PlaybackFiles :
          IF res = <<>>
          THEN UNCHANGED <<file, imageData, playerPc>>
          ELSE /\ file' = ParseFile(res)
               /\ imageData' = RenderEffect(file', frame, imageData)
               /\ playerPc' = IF Len(res) > 0 THEN "fileEffect" ELSE "idle"
    /\ UNCHANGED <<format, options, files, images, i, written, output, emitted, pc,
                   error, outFile, frame, headerVars, exportVars, previewIndex>>

\* The commit of the file effect's setFrame(0)
FileEffect ==
    /\ playerPc = "fileEffect"
    /\ frame' = 0
    /\ imageData' = RenderEffect(file, 0, imageData)
    /\ playerPc' = "idle"
    /\ UNCHANGED <<format, options, files, images, i, written, output, emitted, pc,
                   error, outFile, file, headerVars, exportVars, previewIndex>>

\* The Clear File button: setFrame(null); the render effect returns early
ClearFile ==
    /\ playerPc = "idle"
    /\ Len(file.data) > 0
    /\ frame # Null
    /\ frame' = Null
    /\ UNCHANGED <<format, options, files, images, i, written, output, emitted, pc,
                   error, outFile, file, imageData, headerVars, exportVars, viewVars>>

InitPlayback ==
    /\ CodecIdle
    /\ HeaderIdle
    /\ ViewIdle
    /\ ExportIdle

NextPlayback ==
    \/ OpenAniFile
    \/ FileEffect
    \/ FrameTimer
    \/ ClearFile

SpecPlayback == InitPlayback /\ [][NextPlayback]_vars

\* The render effect of the last commit drew a frame
Drawn ==
    /\ frame # Null
    /\ file.width # Undefined /\ file.width # 0
    /\ file.height # Undefined /\ file.height # 0

\* C23: in the player, whenever a frame is rendered its index is at least 0
\* and less than the frame count of the loaded file, and the bytes decoded
\* lie within the file, at 9 + index * width * height * 3 onwards.
C23_RenderedFrameInRange ==
    Drawn =>
        /\ 0 <= frame
        /\ frame < file.frames
        /\ HeaderBytes + (frame + 1) * file.width * file.height * 3 <= Len(file.data)
        /\ imageData = RenderImageData(file, frame)

\* What export e wrote to its stream: the header, then frame 0, 1, ... and,
\* while frame i is being decoded, exactly the i frames before it
StreamOrdered(e) ==
    LET w == exports[e].wrote
    IN /\ \A k \in 1..Len(w) : (k = 1) <=> (w[k].kind = "header")
       /\ \A k \in 2..Len(w) : w[k].kind = "frame" /\ w[k].index = k - 2
       /\ exports[e].pc = "decoding" => Len(w) = exports[e].i + 1

\* The container of a completed export is what the export wrote, block k
\* being frame k of the folder exported
ContainerInOrder(e) ==
    LET w == exports[e].wrote
    IN Completed(e) =>
          /\ fs.out.blocks = w
          /\ \A k \in 2..Len(w) :
                /\ w[k].folder = w[2].folder
                /\ w[k].name = LoadFolder(disk[w[k].folder]).files[k - 1].name

Notified(e) == Len(SelectSeq(exports[e].sent, LAMBDA n : n[1] = "processedFrame"))

C26_ProgressPerAppendedFrame ==
    \A e \in 1..launched :
        LET ex == exports[e]
        IN /\ ex.pc = "done" =>
                 /\ Len(ex.sent) = Len(ex.wrote)
                 /\ Len(ex.wrote) - 1 = ParseFile(ex.wrote[1].bytes).frames
                 /\ ex.sent[Len(ex.sent)] = <<"finishedExport">>
                 /\ \A k \in 1..(Len(ex.sent) - 1) :
                       ex.sent[k] = <<"processedFrame", ex.wrote[k + 1].name>>
           /\ \A k \in 1..Notified(e) :
                 /\ Len(ex.wrote) >= k + 1
                 /\ ex.wrote[k + 1].kind = "frame"
                 /\ ex.wrote[k + 1].name = ex.sent[k][2]

\* Export e has ended: completed, cancelled or failed
Ended(e) == exports[e].pc \in {"done", "cancelled", "failed", "renameFailed"}

\* C27: after an export ends in any way (completed, cancelled, or failed on a
\* frame) the cancelExport handler it registered has been removed, so a later
\* export that is running behind the export modal has its own handler
\* registered and a cancel request sets that export's flag.
C27_HandlerRemovedAtEnd ==
    /\ \A e \in 1..launched : Ended(e) => handler # e
    /\ (exportModal /\ (\A o \in 1..(launched - 1) : Ended(o))
           /\ exports[launched].pc \in {"opening", "decoding"})
          => handler = launched

\* C28: an export never overwrites or deletes a pre-existing file other than
\* the one at the chosen output path: a file that was in the output directory
\* under another name before the export started has the same content after
\* the export has ended (completed, cancelled or failed).
C28_OtherFilesUntouched ==
    \A e \in 1..launched :
        (Ended(e) /\ exports[e].tempBefore = OldTemp) => fs.temp = OldTemp

----------------------------------------------------------------------------
(* SpecPanel: the options panel pressed in any order, then an export with
   the options it has set *)

\* The four Start Corner buttons: setState, then the effect's setOptions(state)
PressStartCorner ==
    /\ pc = "idle"
    /\ \E c \in StartCorner : imageOptions' = [imageOptions EXCEPT !.startCorner = c]
    /\ UNCHANGED <<codecVars, headerVars, viewVars, disk, folderPath, exports, launched,
                   handler, fs, uiFiles, exportModal, errorModal>>

\* The four Pixel Order buttons, offered for every start corner
PressPixelOrder ==
    /\ pc = "idle"
    /\ \E o \in PixelOrder : imageOptions' = [imageOptions EXCEPT !.pixelOrder = o]
    /\ UNCHANGED <<codecVars, headerVars, viewVars, disk, folderPath, exports, launched,
                   handler, fs, uiFiles, exportModal, errorModal>>

\* The two Flip Image toggles
PressFlip ==
    /\ pc = "idle"
    /\ \/ imageOptions' = [imageOptions EXCEPT !.flip.horizontal = ~@]
       \/ imageOptions' = [imageOptions EXCEPT !.flip.vertical = ~@]
    /\ UNCHANGED <<codecVars, headerVars, viewVars, disk, folderPath, exports, launched,
                   handler, fs, uiFiles, exportModal, errorModal>>

\* Export sends 'export' with { path, format, imageOptions }
SendExport ==
    /\ pc = "idle"
    /\ options' = imageOptions
    /\ pc' = "start"
    /\ UNCHANGED <<format, files, images, i, written, output, emitted, error, outFile,
                   file, frame, imageData, headerVars, exportVars, viewVars>>

InitPanel ==
    /\ format = rgb
    /\ options = DefaultOptions
    /\ \E w \in 1..MaxWidth, h \in 1..MaxHeight, n \in 1..MaxFrames :
          /\ files = [k \in 1..n |-> [width |-> w, height |-> h, name |-> k]]
          /\ images = [k \in 1..n |->
                         [data |-> SourceData(k, w * h * 3),
                          info |-> [width |-> w, height |-> h, channels |-> 3]]]
    /\ i = 0
    /\ written = <<>>
    /\ output = <<>>
    /\ emitted = <<>>
    /\ pc = "idle"
    /\ error = <<>>
    /\ outFile = <<>>
    /\ file = NoFile
    /\ frame = Null
    /\ imageData = <<>>
    /\ HeaderIdle
    /\ ViewIdle
    /\ ExportIdle

NextPanel ==
    \/ PressStartCorner
    \/ PressPixelOrder
    \/ PressFlip
    \/ SendExport
    \/ ExportReady
    \/ ProcessFrame
    \/ FinishExport

SpecPanel == InitPanel /\ [][NextPanel]_vars

\* C29: every (startCorner, pixelOrder) pair the options panel can reach by
\* start-corner and pixel-order presses from (topLeft, horizontal) is a pair
\* the exporter accepts: an export with the panel's options never ends with
\* the unsupported-combination error.
C29_PanelPairsAccepted ==
    ~(/\ pc = "failed"
      /\ options = imageOptions
      /\ Len(error) > 0
      /\ error[1] = "Unsupported pixel order")

----------------------------------------------------------------------------
(* SpecPreview: the generator's preview ticking while folders are loaded,
   cleared and exported *)

\* Two folders the dialog can select, each accepted, of different lengths
PreviewDisk ==
    [long |-> [k \in 1..(MaxFrames + 1) |-> Img(k, "png", 2, 1)],
     short |-> <<Img(1, "png", 2, 1)>>]

\* The 33 ms interval of Preview, not set while the export modal is shown
PreviewTick ==
    /\ Len(uiFiles) > 0
    /\ ~PreviewThrows
    /\ ~exportModal
    /\ previewIndex' = IF previewIndex >= Len(uiFiles) - 1 THEN 0 ELSE previewIndex + 1
    /\ UNCHANGED <<codecVars, headerVars, exportVars, playerPc>>

InitPreview ==
    /\ CodecIdle
    /\ HeaderIdle
    /\ ViewIdle
    /\ disk = PreviewDisk
    /\ folderPath = ""
    /\ exports = <<>>
    /\ launched = 0
    /\ handler = 0
    /\ fs = [temp |-> Absent, out |-> Absent]
    /\ uiFiles = <<>>
    /\ imageOptions = DefaultOptions
    /\ exportModal = FALSE
    /\ errorModal = DefaultErrorModal

NextPreview ==
    \/ SelectFolder
    \/ ClearImages
    \/ PreviewTick
    \/ ClickExport
    \/ CancelExport
    \/ \E e \in 1..launched : Ready(e)
    \/ \E e \in 1..launched : FrameDone(e)
    \/ \E e \in 1..launched : Finish(e)
    \/ \E e \in 1..launched : Closed(e)

SpecPreview == InitPreview /\ [][NextPreview]_vars

\* C30: in the generator preview, after any sequence of timer ticks,
\* pause/resume and folder loads that replace the file list with a longer or
\* shorter non-empty list, the preview index is less than the number of files
\* whenever the preview renders files[index].
C30_PreviewIndexInRange ==
    Len(uiFiles) > 0 => previewIndex < Len(uiFiles)
====
